---------------------------- MODULE Spec2Model ----------------------------
(***************************************************************************)
(* Model of report.py: the daily (optionally hourly) campaign report that  *)
(* joins a cost feed and a revenue feed.                                   *)
(*                                                                         *)
(* Text is a sequence of one-character strings, so that parsing and        *)
(* formatting are computed, not assumed.  A float is a record: NaN, or an  *)
(* exact rational n/d in lowest terms (IEEE rounding, overflow and the     *)
(* infinities are outside the model).  An instant is a number of minutes   *)
(* since 1970-01-01 00:00 UTC, or NaT.                                     *)
(***************************************************************************)
EXTENDS Integers, Sequences, FiniteSets, TLC

VARIABLES
    pc,          \* the statement of main() that runs next
    args,        \* the parsed command line: date_from, date_to, hourly
    cost_csv,    \* the cost file: rows of raw text cells
    rev_csv,     \* the revenue file: rows of raw text cells
    cost,        \* main's `cost` data frame
    rev,         \* main's `rev` data frame
    cost_daily,  \* main's `cost_daily`
    rev_daily,   \* main's `rev_daily`
    report,      \* main's `report`
    h,           \* main's `h`, the hourly outer join (hourly mode only)
    out_file,    \* the file at args.out: NoFile, or the table written
    writes,      \* how many times to_csv has run
    error,       \* the exception that ended the run, or "none"
    div_a,       \* safe_div called on its own: the numerator array
    div_b,       \* the denominator array
    div_out,     \* the array returned
    div_pc       \* "call" before safe_div has run, "returned" after, "off" in main

vars == <<pc, args, cost_csv, rev_csv, cost, rev, cost_daily, rev_daily, report, h,
          out_file, writes, error, div_a, div_b, div_out, div_pc>>

-----------------------------------------------------------------------------
(* Text *)

\* The characters the feeds use, in code point order.
Ascii == <<" ", "-", ".", "/", "0", "1", "2", "3", "4", "5", "6", "7", "8", "9", ":",
           "A", "B", "C", "N", "Z", "a", "b", "d", "e", "n", "s", "x">>

Ord(c) == CHOOSE i \in 1..Len(Ascii) : Ascii[i] = c

DigitChars == <<"0", "1", "2", "3", "4", "5", "6", "7", "8", "9">>

IsDigit(c) == \E i \in 1..10 : DigitChars[i] = c

DigitVal(c) == (CHOOSE i \in 1..10 : DigitChars[i] = c) - 1

AllDigits(s) == \A i \in 1..Len(s) : IsDigit(s[i])

\* The value of a string of decimal digits.
RECURSIVE DigitsVal(_)
DigitsVal(s) ==
    IF s = <<>> THEN 0
    ELSE 10 * DigitsVal(SubSeq(s, 1, Len(s) - 1)) + DigitVal(s[Len(s)])

\* Python's str comparison: lexicographic by code point.
RECURSIVE StrLess(_, _)
StrLess(s, t) ==
    IF t = <<>> THEN FALSE
    ELSE IF s = <<>> THEN TRUE
    ELSE IF s[1] # t[1] THEN Ord(s[1]) < Ord(t[1])
    ELSE StrLess(Tail(s), Tail(t))

\* The position of the first c in s, or 0.
IndexOf(s, c) ==
    IF \E i \in 1..Len(s) : s[i] = c
    THEN CHOOSE i \in 1..Len(s) : s[i] = c /\ \A j \in 1..(i - 1) : s[j] # c
    ELSE 0

\* Two decimal digits, zero padded.
Pad2(n) == <<DigitChars[((n \div 10) % 10) + 1], DigitChars[(n % 10) + 1]>>

Pad4(n) == Pad2(n \div 100) \o Pad2(n % 100)

-----------------------------------------------------------------------------
(* float64 *)

NaN == [nan |-> TRUE, n |-> 0, d |-> 1]

Abs(x) == IF x < 0 THEN -x ELSE x

RECURSIVE Gcd(_, _)
Gcd(a, b) == IF b = 0 THEN a ELSE Gcd(b, a % b)

\* The float n/d (d # 0), in lowest terms with a positive denominator.
Num(n, d) ==
    LET g == Gcd(Abs(n), Abs(d))
        s == IF d < 0 THEN -1 ELSE 1
    IN  [nan |-> FALSE, n |-> (s * n) \div g, d |-> Abs(d) \div g]

Zero == Num(0, 1)

\* x != y of two floats: NaN differs from everything, itself included.
FNe(x, y) == x.nan \/ y.nan \/ x.n # y.n \/ x.d # y.d

\* x > y: FALSE when either is NaN.
FGt(x, y) == ~x.nan /\ ~y.nan /\ x.n * y.d > y.n * x.d

FAdd(x, y) == IF x.nan \/ y.nan THEN NaN ELSE Num(x.n * y.d + y.n * x.d, x.d * y.d)

FSub(x, y) == IF x.nan \/ y.nan THEN NaN ELSE Num(x.n * y.d - y.n * x.d, x.d * y.d)

\* x / y.  The one division of the program is masked to y != 0; x / 0 is not a
\* number of this model and is given as NaN.
FDiv(x, y) ==
    IF x.nan \/ y.nan \/ y.n = 0 THEN NaN ELSE Num(x.n * y.d, x.d * y.n)

\* fillna(v) of one cell.
FillNa(x, v) == IF x.nan THEN v ELSE x

RECURSIVE FSum(_)
FSum(s) == IF s = <<>> THEN Zero ELSE FAdd(s[1], FSum(Tail(s)))

-----------------------------------------------------------------------------
(* Calendar *)

\* Days from 1970-01-01 to the civil date y-m-d (proleptic Gregorian).
DaysFromCivil(y, m, d) ==
    LET yy  == IF m <= 2 THEN y - 1 ELSE y
        era == yy \div 400
        yoe == yy - era * 400
        mp  == IF m > 2 THEN m - 3 ELSE m + 9
        doy == ((153 * mp + 2) \div 5) + d - 1
        doe == yoe * 365 + (yoe \div 4) - (yoe \div 100) + doy
    IN  era * 146097 + doe - 719468

\* The civil date of a day number, as <<year, month, day>>.
CivilFromDays(z0) ==
    LET z   == z0 + 719468
        era == z \div 146097
        doe == z - era * 146097
        yoe == (doe - (doe \div 1460) + (doe \div 36524) - (doe \div 146096)) \div 365
        doy == doe - (365 * yoe + (yoe \div 4) - (yoe \div 100))
        mp  == (5 * doy + 2) \div 153
        d   == doy - ((153 * mp + 2) \div 5) + 1
        m   == IF mp < 10 THEN mp + 3 ELSE mp - 9
        y   == yoe + era * 400
    IN  <<IF m <= 2 THEN y + 1 ELSE y, m, d>>

IsLeap(y) == (y % 4 = 0 /\ y % 100 # 0) \/ y % 400 = 0

DaysInMonth(y, m) ==
    IF m = 2 THEN (IF IsLeap(y) THEN 29 ELSE 28)
    ELSE IF m \in {4, 6, 9, 11} THEN 30 ELSE 31

\* 0 = Sunday ... 6 = Saturday (1970-01-01 was a Thursday).
Weekday(days) == (days + 4) % 7

\* The day number of the k-th Sunday of month m of year y.
NthSunday(y, m, k) ==
    LET first == DaysFromCivil(y, m, 1)
    IN  first + ((7 - Weekday(first)) % 7) + 7 * (k - 1)

MinutesPerDay == 1440

MinutesPerHour == 60

\* pandas' NaT, the missing instant.
NaT == -1

\* Series.dt.floor("D") and .dt.floor("h") of one instant.
FloorDay(t) == IF t = NaT THEN NaT ELSE (t \div MinutesPerDay) * MinutesPerDay

FloorHour(t) == IF t = NaT THEN NaT ELSE (t \div MinutesPerHour) * MinutesPerHour

-----------------------------------------------------------------------------
(* America/New_York *)

\* SOURCE_TZ's offsets from UTC, in minutes: standard and daylight time.
EstOffset == 300

EdtOffset == 240

\* Wall-clock minute (counted as if UTC) at which daylight time begins: 02:00 on
\* the second Sunday of March.  The rule of 2007 and later.
DstStartWall(y) == NthSunday(y, 3, 2) * MinutesPerDay + 2 * MinutesPerHour

\* Wall-clock minute at which daylight time ends: 02:00 on the first Sunday of
\* November.
DstEndWall(y) == NthSunday(y, 11, 1) * MinutesPerDay + 2 * MinutesPerHour

\* A wall time the spring-forward gap skips.
IsNonexistent(y, w) == DstStartWall(y) <= w /\ w < DstStartWall(y) + MinutesPerHour

\* A wall time the fall-back hour repeats.
IsAmbiguous(y, w) == DstEndWall(y) - MinutesPerHour <= w /\ w < DstEndWall(y)

\* The outcome of converting one cell: an instant, or the exception raised.
Ok(t) == [err |-> "none", t |-> t]

Raise(e) == [err |-> e, t |-> NaT]

\* Faulty variant of TzLocalizeToUtc: the wall time taken as UTC already.
TzLocalizeAsUtc(y, w) == {Ok(w)}

\* tz_localize(SOURCE_TZ, ambiguous="infer", nonexistent="shift_forward") then
\* tz_convert("UTC") of wall time w of year y: the outcomes it may have.  An
\* ambiguous wall time is resolved from the neighbouring rows, or raises; the model
\* allows both offsets and the error.
TzLocalizeToUtc(y, w) ==
    IF IsNonexistent(y, w) THEN {Ok(DstStartWall(y) + MinutesPerHour + EdtOffset)}
    ELSE IF IsAmbiguous(y, w)
         THEN {Ok(w + EdtOffset), Ok(w + EstOffset), Raise("AmbiguousTimeError")}
    ELSE IF DstStartWall(y) <= w /\ w < DstEndWall(y) THEN {Ok(w + EdtOffset)}
    ELSE {Ok(w + EstOffset)}

-----------------------------------------------------------------------------
(* read_csv, to_numeric, to_datetime *)

\* A missing cell (pandas' <NA> / NaN of an object column).
NA == <<"<NA>">>

Txt1(a) == <<a>>

\* Cell texts read_csv reads as missing (a part of its default na_values).
NaValues == {<<>>, <<"N", "A">>, <<"N", "/", "A">>, <<"n", "a", "n">>}

ReadCell(text) == IF text \in NaValues THEN NA ELSE text

RECURSIVE Pow10(_)
Pow10(k) == IF k = 0 THEN 1 ELSE 10 * Pow10(k - 1)

\* pd.to_numeric(errors="coerce") of one cell: a plain decimal (sign, digits, at
\* most one point) gives its value, a missing or any other cell NaN.  Exponents and
\* the words inf and nan, which to_numeric also reads, are not cells of the model.
ToNumeric(cell) ==
    IF cell = NA \/ cell = <<>> THEN NaN
    ELSE
        LET neg  == cell[1] = "-"
            body == IF neg THEN Tail(cell) ELSE cell
            dot  == IndexOf(body, ".")
            ip   == IF dot = 0 THEN body ELSE SubSeq(body, 1, dot - 1)
            fp   == IF dot = 0 THEN <<>> ELSE SubSeq(body, dot + 1, Len(body))
        IN  IF AllDigits(ip) /\ AllDigits(fp) /\ Len(ip) + Len(fp) >= 1
            THEN Num((IF neg THEN -1 ELSE 1) * (DigitsVal(ip) * Pow10(Len(fp)) + DigitsVal(fp)),
                     Pow10(Len(fp)))
            ELSE NaN

\* The fields of a text in the format "%m/%d/%y %H:%M", or ok = FALSE when the text
\* does not match it.
Strptime(s) ==
    LET i1 == IndexOf(s, "/")
        mo == SubSeq(s, 1, i1 - 1)
        r1 == SubSeq(s, i1 + 1, Len(s))
        i2 == IndexOf(r1, "/")
        dd == SubSeq(r1, 1, i2 - 1)
        r2 == SubSeq(r1, i2 + 1, Len(r1))
        i3 == IndexOf(r2, " ")
        yy == SubSeq(r2, 1, i3 - 1)
        r3 == SubSeq(r2, i3 + 1, Len(r2))
        i4 == IndexOf(r3, ":")
        hh == SubSeq(r3, 1, i4 - 1)
        mi == SubSeq(r3, i4 + 1, Len(r3))
        shaped == /\ i1 > 0 /\ i2 > 0 /\ i3 > 0 /\ i4 > 0
                  /\ AllDigits(mo) /\ Len(mo) \in 1..2
                  /\ AllDigits(dd) /\ Len(dd) \in 1..2
                  /\ AllDigits(yy) /\ Len(yy) = 2
                  /\ AllDigits(hh) /\ Len(hh) \in 1..2
                  /\ AllDigits(mi) /\ Len(mi) \in 1..2
        year == IF DigitsVal(yy) >= 69 THEN 1900 + DigitsVal(yy) ELSE 2000 + DigitsVal(yy)
    IN  IF /\ shaped
           /\ DigitsVal(mo) \in 1..12
           /\ DigitsVal(dd) \in 1..DaysInMonth(year, DigitsVal(mo))
           /\ DigitsVal(hh) \in 0..23
           /\ DigitsVal(mi) \in 0..59
        THEN [ok |-> TRUE, year |-> year, month |-> DigitsVal(mo), day |-> DigitsVal(dd),
              hour |-> DigitsVal(hh), minute |-> DigitsVal(mi)]
        ELSE [ok |-> FALSE]

\* pd.to_datetime(format=..., errors="raise") of one cell, then the conversion to
\* UTC: the set of outcomes.  A missing cell passes through as NaT; a text that
\* does not match the format raises.
ToUtc(cell) ==
    IF cell = NA THEN {Ok(NaT)}
    ELSE
        LET f == Strptime(cell)
        IN  IF ~f.ok THEN {Raise("ValueError")}
            ELSE TzLocalizeToUtc(f.year,
                    DaysFromCivil(f.year, f.month, f.day) * MinutesPerDay
                        + f.hour * MinutesPerHour + f.minute)

\* pd.Timestamp("YYYY-MM-DD", tz="UTC").floor("D").
ParseDateArg(s) ==
    DaysFromCivil(DigitsVal(SubSeq(s, 1, 4)), DigitsVal(SubSeq(s, 6, 7)),
                  DigitsVal(SubSeq(s, 9, 10))) * MinutesPerDay

\* Series.dt.strftime(OUT_DATE_FMT), "%Y/%m/%d", of a UTC day.
Strftime(t) ==
    LET c == CivilFromDays(t \div MinutesPerDay)
    IN  Pad4(c[1]) \o <<"/">> \o Pad2(c[2]) \o <<"/">> \o Pad2(c[3])

-----------------------------------------------------------------------------
(* Data frames: sequences of records, one record per row *)

\* A set of integers as the ascending sequence.
Ascending(S) ==
    [i \in 1..Cardinality(S) |-> CHOOSE x \in S : Cardinality({y \in S : y < x}) = i - 1]

\* df[mask]: the rows of a frame where the boolean mask holds, in order.
SelectRows(df, mask) ==
    LET idx == Ascending({i \in DOMAIN df : mask[i]})
    IN  [j \in DOMAIN idx |-> df[idx[j]]]

\* The order of the (date_utc, campaign_id) keys of a sorted group-by or join.
DayKeyLess(k1, k2) ==
    \/ k1[1] < k2[1]
    \/ k1[1] = k2[1] /\ StrLess(k1[2], k2[2])

\* The order of the (date_utc, hour_utc, campaign_id) keys.
HourKeyLess(k1, k2) ==
    \/ k1[1] < k2[1]
    \/ k1[1] = k2[1] /\ k1[2] < k2[2]
    \/ k1[1] = k2[1] /\ k1[2] = k2[2] /\ StrLess(k1[3], k2[3])

\* A set of keys as the ascending sequence: the order of a sorted group-by or join.
SortDayKeys(S) ==
    [i \in 1..Cardinality(S) |->
        CHOOSE x \in S : Cardinality({y \in S : DayKeyLess(y, x)}) = i - 1]

SortHourKeys(S) ==
    [i \in 1..Cardinality(S) |->
        CHOOSE x \in S : Cardinality({y \in S : HourKeyLess(y, x)}) = i - 1]

DayKey(r) == <<r.date_utc, r.campaign_id>>

HourKey(r) == <<r.date_utc, r.hour_utc, r.campaign_id>>

\* groupby drops the rows whose key has a missing part (dropna=True).
HasDayKey(r) == r.date_utc # NaT /\ r.campaign_id # NA

HasHourKey(r) == r.date_utc # NaT /\ r.hour_utc # NaT /\ r.campaign_id # NA

\* The group keys of a frame.
DayKeys(df) == {DayKey(df[i]) : i \in {j \in DOMAIN df : HasDayKey(df[j])}}

HourKeys(df) == {HourKey(df[i]) : i \in {j \in DOMAIN df : HasHourKey(df[j])}}

\* The column `col` of the rows of df in the group of day key k / hour key k.
DayGroup(df, k, col) ==
    LET rows == SelectRows(df, [i \in DOMAIN df |-> HasDayKey(df[i]) /\ DayKey(df[i]) = k])
    IN  [i \in DOMAIN rows |-> rows[i][col]]

HourGroup(df, k, col) ==
    LET rows == SelectRows(df, [i \in DOMAIN df |-> HasHourKey(df[i]) /\ HourKey(df[i]) = k])
    IN  [i \in DOMAIN rows |-> rows[i][col]]

\* The "min" aggregate of a text column: the least present value, missing when
\* none is present.
RECURSIVE TextMin(_)
TextMin(names) ==
    IF names = <<>> THEN NA
    ELSE LET rest == TextMin(Tail(names))
         IN  IF names[1] = NA THEN rest
             ELSE IF rest = NA THEN names[1]
             ELSE IF StrLess(rest, names[1]) THEN rest ELSE names[1]

\* The "mean" aggregate of a float column of a non-empty group.
FMean(xs) == FDiv(FSum(xs), Num(Len(xs), 1))

\* The row of a frame with day key k (frames keyed by day hold one at most).
HasRow(df, k) == \E i \in DOMAIN df : DayKey(df[i]) = k

RowOf(df, k) == df[CHOOSE i \in DOMAIN df : DayKey(df[i]) = k]

-----------------------------------------------------------------------------
(* safe_div *)

\* Faulty variant of safe_div: the result starts as zeros, not NaN.
safe_div_zeros(a, b) ==
    LET mask == [i \in DOMAIN b |-> FNe(b[i], Zero)]
    IN  [i \in DOMAIN a |-> IF mask[i] THEN FDiv(a[i], b[i]) ELSE Zero]

\* safe_div(a, b) of two arrays of one length: NaN everywhere, then a / b where
\* b != 0.
safe_div(a, b) ==
    LET mask == [i \in DOMAIN b |-> FNe(b[i], Zero)]
    IN  [i \in DOMAIN a |-> IF mask[i] THEN FDiv(a[i], b[i]) ELSE NaN]

\* A column of a frame as an array.
Column(df, col) == [i \in DOMAIN df |-> df[i][col]]

-----------------------------------------------------------------------------
(* The stages of main() *)

\* A cell of a column read_csv has not typed (dtype object): its text, or NA.
Obj(cell) == [text |-> cell]

\* 1) Load CSVs.
ReadCostCsv(file) ==
    [i \in DOMAIN file |->
        [campaign_id   |-> ReadCell(file[i].campaign_id),
         campaign_name |-> ReadCell(file[i].campaign_name),
         clicks        |-> Obj(ReadCell(file[i].clicks)),
         cost          |-> Obj(ReadCell(file[i].cost)),
         data_date     |-> ReadCell(file[i].data_date)]]

ReadRevCsv(file) ==
    [i \in DOMAIN file |->
        [campaign_id |-> ReadCell(file[i].campaign_id),
         revenue     |-> Obj(ReadCell(file[i].revenue)),
         data_date   |-> ReadCell(file[i].data_date)]]

\* 2) Numeric casting: to_numeric(errors="coerce").fillna(0.0) of one column.
CastColumn(df, col) ==
    [i \in DOMAIN df |-> [df[i] EXCEPT ![col] = FillNa(ToNumeric(@.text), Zero)]]

\* 3) parse_est_to_utc(df, "data_date"): the outcomes of converting the column,
\* each a sequence of one outcome per row.
ColumnOutcomes(df) ==
    LET outs == [i \in DOMAIN df |-> ToUtc(df[i].data_date)]
    IN  {o \in [DOMAIN df -> UNION {outs[i] : i \in DOMAIN df}] :
            \A i \in DOMAIN df : o[i] \in outs[i]}

\* The frame parse_est_to_utc returns when the conversion gave the instants dt.
WithUtc(df, dt) ==
    [i \in DOMAIN df |->
        [c \in DOMAIN df[i] \cup {"dt_utc", "date_utc", "hour_utc"} |->
            IF c = "dt_utc" THEN dt[i].t
            ELSE IF c = "date_utc" THEN FloorDay(dt[i].t)
            ELSE IF c = "hour_utc" THEN FloorHour(dt[i].t)
            ELSE df[i][c]]]

\* Faulty variant of InRange: the upper bound excluded.
InRangeBelowTo(r, d_from, d_to) ==
    r.date_utc # NaT /\ r.date_utc >= d_from /\ r.date_utc < d_to

\* 4) The filter's mask: d_from <= date_utc <= d_to.  Every comparison with NaT is
\* False.
InRange(r, d_from, d_to) ==
    r.date_utc # NaT /\ r.date_utc >= d_from /\ r.date_utc <= d_to

FilterByDate(df, d_from, d_to) ==
    SelectRows(df, [i \in DOMAIN df |-> InRange(df[i], d_from, d_to)])

\* 5) Aggregate daily per campaign.
CostDaily(df) ==
    LET keys == SortDayKeys(DayKeys(df))
    IN  [i \in DOMAIN keys |->
            [date_utc      |-> keys[i][1],
             campaign_id   |-> keys[i][2],
             campaign_name |-> TextMin(DayGroup(df, keys[i], "campaign_name")),
             total_cost    |-> FSum(DayGroup(df, keys[i], "cost")),
             total_clicks  |-> FSum(DayGroup(df, keys[i], "clicks"))]]

RevDaily(df) ==
    LET keys == SortDayKeys(DayKeys(df))
    IN  [i \in DOMAIN keys |->
            [date_utc      |-> keys[i][1],
             campaign_id   |-> keys[i][2],
             total_revenue |-> FSum(DayGroup(df, keys[i], "revenue"))]]

\* Faulty variant of MergeOuter: a left join, which keeps the cost side's keys only.
MergeLeft(cd, rd) ==
    [i \in DOMAIN cd |->
        [date_utc      |-> cd[i].date_utc,
         campaign_id   |-> cd[i].campaign_id,
         campaign_name |-> cd[i].campaign_name,
         total_cost    |-> cd[i].total_cost,
         total_clicks  |-> cd[i].total_clicks,
         total_revenue |-> IF HasRow(rd, DayKey(cd[i]))
                           THEN RowOf(rd, DayKey(cd[i])).total_revenue ELSE NaN]]

\* 6) Outer join on (date_utc, campaign_id): a key of one side only has the other
\* side's columns missing.
MergeOuter(cd, rd) ==
    LET keys == SortDayKeys({DayKey(cd[i]) : i \in DOMAIN cd} \cup
                            {DayKey(rd[i]) : i \in DOMAIN rd})
    IN  [i \in DOMAIN keys |->
            [date_utc      |-> keys[i][1],
             campaign_id   |-> keys[i][2],
             campaign_name |-> IF HasRow(cd, keys[i]) THEN RowOf(cd, keys[i]).campaign_name
                               ELSE NA,
             total_cost    |-> IF HasRow(cd, keys[i]) THEN RowOf(cd, keys[i]).total_cost
                               ELSE NaN,
             total_clicks  |-> IF HasRow(cd, keys[i]) THEN RowOf(cd, keys[i]).total_clicks
                               ELSE NaN,
             total_revenue |-> IF HasRow(rd, keys[i]) THEN RowOf(rd, keys[i]).total_revenue
                               ELSE NaN]]

\* Faulty variant of FillReport: the numbers filled, the name left missing.
FillReportNumbers(df) ==
    [i \in DOMAIN df |->
        [df[i] EXCEPT !.total_cost    = FillNa(@, Zero),
                      !.total_clicks  = FillNa(@, Zero),
                      !.total_revenue = FillNa(@, Zero)]]

\* The four fillna lines after the join.
FillReport(df) ==
    [i \in DOMAIN df |->
        [df[i] EXCEPT !.campaign_name = IF @ = NA THEN <<>> ELSE @,
                      !.total_cost    = FillNa(@, Zero),
                      !.total_clicks  = FillNa(@, Zero),
                      !.total_revenue = FillNa(@, Zero)]]

\* Faulty variant of Calculate: the ROI simplified to total_revenue / total_cost.
CalculateDirectRoi(df) ==
    LET total_revenue == Column(df, "total_revenue")
        total_cost    == Column(df, "total_cost")
        total_clicks  == Column(df, "total_clicks")
        avg_cpc       == safe_div(total_cost, total_clicks)
        total_roi     == safe_div(total_revenue, total_cost)
    IN  [i \in DOMAIN df |->
            [c \in DOMAIN df[i] \cup {"total_profit", "avg_cpc", "total_roi"} |->
                IF c = "total_profit" THEN FSub(total_revenue[i], total_cost[i])
                ELSE IF c = "avg_cpc" THEN avg_cpc[i]
                ELSE IF c = "total_roi" THEN total_roi[i]
                ELSE df[i][c]]]

\* 7) Calculations: total_profit, avg_cpc and total_roi, column by column.
Calculate(df) ==
    LET total_revenue == Column(df, "total_revenue")
        total_cost    == Column(df, "total_cost")
        total_clicks  == Column(df, "total_clicks")
        avg_cpc       == safe_div(total_cost, total_clicks)
        uv            == safe_div(total_revenue, total_clicks)
        cpc           == safe_div(total_cost, total_clicks)
        total_roi     == safe_div(uv, cpc)
    IN  [i \in DOMAIN df |->
            [c \in DOMAIN df[i] \cup {"total_profit", "avg_cpc", "total_roi"} |->
                IF c = "total_profit" THEN FSub(total_revenue[i], total_cost[i])
                ELSE IF c = "avg_cpc" THEN avg_cpc[i]
                ELSE IF c = "total_roi" THEN total_roi[i]
                ELSE df[i][c]]]

\* Faulty variant of HourlyJoin: an inner join, which drops the hours one feed
\* alone has.
HourlyJoinInner(c, r) ==
    LET keys == SortHourKeys(HourKeys(c) \cap HourKeys(r))
    IN  [i \in DOMAIN keys |->
            LET co == FSum(HourGroup(c, keys[i], "cost"))
                re == FSum(HourGroup(r, keys[i], "revenue"))
            IN  [date_utc    |-> keys[i][1],
                 hour_utc    |-> keys[i][2],
                 campaign_id |-> keys[i][3],
                 cost        |-> co,
                 revenue     |-> re,
                 profit      |-> FSub(re, co)]]

\* 8) The hourly outer join h: cost_h and rev_h merged on (date_utc, hour_utc,
\* campaign_id), missing sides filled with 0.0, and the profit of each hour.
HourlyJoin(c, r) ==
    LET ck   == HourKeys(c)
        rk   == HourKeys(r)
        keys == SortHourKeys(ck \cup rk)
        cost_h(k)  == IF k \in ck THEN FSum(HourGroup(c, k, "cost")) ELSE NaN
        rev_h(k)   == IF k \in rk THEN FSum(HourGroup(r, k, "revenue")) ELSE NaN
    IN  [i \in DOMAIN keys |->
            LET co == FillNa(cost_h(keys[i]), Zero)
                re == FillNa(rev_h(keys[i]), Zero)
            IN  [date_utc    |-> keys[i][1],
                 hour_utc    |-> keys[i][2],
                 campaign_id |-> keys[i][3],
                 cost        |-> co,
                 revenue     |-> re,
                 profit      |-> FSub(re, co)]]

\* Faulty variant of IsProfitable: profit >= 0.
IsNotLoss(hr) == ~hr.profit.nan /\ ~FGt(Zero, hr.profit)

\* h[h["profit"] > 0].
IsProfitable(hr) == FGt(hr.profit, Zero)

\* The hours of h of the day key k.
HoursOf(hh, k) == SelectRows(hh, [i \in DOMAIN hh |-> DayKey(hh[i]) = k])

\* pos_hours: the size of each (date_utc, campaign_id) group of the profitable
\* hours; a key with no such hour has no row.
PosHours(hh, k) ==
    LET day  == HoursOf(hh, k)
        rows == SelectRows(day, [i \in DOMAIN day |-> IsProfitable(day[i])])
    IN  IF rows = <<>> THEN NaN ELSE Num(Len(rows), 1)

\* Faulty variant of AvgHourlyRev: the mean over the hours that have revenue.
AvgRevenueHours(hh, k) ==
    LET rows == SelectRows(hh, [i \in DOMAIN hh |->
                                    DayKey(hh[i]) = k /\ hh[i].revenue # Zero])
    IN  IF rows = <<>> THEN NaN ELSE FMean(Column(rows, "revenue"))

\* avg_hourly_rev: the mean revenue of each (date_utc, campaign_id) group of h.
AvgHourlyRev(hh, k) ==
    LET rows == HoursOf(hh, k)
    IN  IF rows = <<>> THEN NaN ELSE FMean(Column(rows, "revenue"))

\* astype(int) of a float that is a number.
AsInt(x) == x.n \div x.d

\* The two left merges onto the report and their fillna.
MergeHourly(df, hh) ==
    [i \in DOMAIN df |->
        [c \in DOMAIN df[i] \cup {"positive_profit_hours", "hourly_avg_revenue"} |->
            IF c = "positive_profit_hours"
            THEN AsInt(FillNa(PosHours(hh, DayKey(df[i])), Zero))
            ELSE IF c = "hourly_avg_revenue"
            THEN FillNa(AvgHourlyRev(hh, DayKey(df[i])), Zero)
            ELSE df[i][c]]]

\* 9) Output columns/order.
OutputColumns(hourly) ==
    {"date", "campaign_id", "campaign_name", "total_revenue", "total_cost",
     "total_profit", "total_clicks", "total_roi", "avg_cpc"}
    \cup (IF hourly THEN {"hourly_avg_revenue", "positive_profit_hours"} ELSE {})

\* sort_values(["date", "campaign_id"]): rows before row i.
OutputLess(r1, r2) ==
    \/ StrLess(r1.date, r2.date)
    \/ r1.date = r2.date /\ StrLess(r1.campaign_id, r2.campaign_id)

FormatReport(df, hourly) ==
    LET dated == [i \in DOMAIN df |->
                    [c \in OutputColumns(hourly) |->
                        IF c = "date" THEN Strftime(df[i].date_utc) ELSE df[i][c]]]
        \* a stable sort: ties keep the order of the frame
        Before(i, j) == OutputLess(dated[i], dated[j])
                        \/ (~OutputLess(dated[j], dated[i]) /\ i < j)
        order == [j \in DOMAIN dated |->
                    CHOOSE i \in DOMAIN dated :
                        Cardinality({k \in DOMAIN dated : Before(k, i)}) = j - 1]
    IN  [j \in DOMAIN order |-> dated[order[j]]]

-----------------------------------------------------------------------------
(* The inputs: the two files and the command line *)

\* The feeds together hold at most MaxRows rows.
MaxRows == 3

\* data_date cells.  In Eastern time; the UTC instant is in the name.
Ts1231At1859 == <<"1", "2", "/", "3", "1", "/", "1", "8", " ", "1", "8", ":", "5", "9">>   \* 2018-12-31 23:59 UTC

Ts1231At1900 == <<"1", "2", "/", "3", "1", "/", "1", "8", " ", "1", "9", ":", "0", "0">>   \* 2019-01-01 00:00 UTC

Ts1231At2000 == <<"1", "2", "/", "3", "1", "/", "1", "8", " ", "2", "0", ":", "0", "0">>   \* 2019-01-01 01:00 UTC

TsDateOnly == <<"1", "2", "/", "3", "1", "/", "1", "8">>   \* no time of day: not in the format

TsNotAvailable == <<"N", "/", "A">>   \* read_csv reads it as missing

\* The rows a cost file is made of.
CostRows ==
    { [campaign_id |-> Txt1("A"), campaign_name |-> <<"A", "d", "s">>,
       clicks |-> <<"1", "0">>, cost |-> <<"5", ".", "0">>, data_date |-> Ts1231At1900],
      [campaign_id |-> Txt1("A"), campaign_name |-> <<"A", "b", "d">>,
       clicks |-> <<"0">>, cost |-> <<"2", ".", "5">>, data_date |-> Ts1231At2000],
      [campaign_id |-> Txt1("B"), campaign_name |-> <<"Z", "e", "d">>,
       clicks |-> <<"x">>, cost |-> <<"3">>, data_date |-> Ts1231At1859],
      [campaign_id |-> Txt1("A"), campaign_name |-> <<"A", "d", "s">>,
       clicks |-> <<"1", "0">>, cost |-> <<"5", ".", "0">>, data_date |-> TsDateOnly],
      [campaign_id |-> Txt1("A"), campaign_name |-> <<"A", "d", "s">>,
       clicks |-> <<"1">>, cost |-> <<"1">>, data_date |-> TsNotAvailable] }

\* The rows a revenue file is made of.
RevRows ==
    { [campaign_id |-> Txt1("A"), revenue |-> <<"2", "0", ".", "0">>, data_date |-> Ts1231At1900],
      [campaign_id |-> Txt1("B"), revenue |-> <<"5">>, data_date |-> Ts1231At2000],
      [campaign_id |-> Txt1("A"), revenue |-> <<"x">>, data_date |-> Ts1231At2000],
      [campaign_id |-> <<>>, revenue |-> <<"7">>, data_date |-> Ts1231At1900],
      [campaign_id |-> Txt1("A"), revenue |-> <<"2", "0", ".", "0">>, data_date |-> TsDateOnly] }

\* --date-from and --date-to.
Date20181231 == <<"2", "0", "1", "8", "-", "1", "2", "-", "3", "1">>

Date20190101 == <<"2", "0", "1", "9", "-", "0", "1", "-", "0", "1">>

DateArgs == {Date20181231, Date20190101}

\* What to_csv has written at args.out.
NoFile == [written |-> FALSE, rows |-> <<>>]

Init ==
    /\ pc = "load"
    /\ \E nc \in 0..MaxRows : \E nr \in 0..(MaxRows - nc) :
          /\ cost_csv \in [1..nc -> CostRows]
          /\ rev_csv \in [1..nr -> RevRows]
    /\ args \in [date_from : DateArgs, date_to : DateArgs, hourly : BOOLEAN]
    /\ cost = <<>> /\ rev = <<>>
    /\ cost_daily = <<>> /\ rev_daily = <<>>
    /\ report = <<>> /\ h = <<>>
    /\ out_file = NoFile /\ writes = 0
    /\ error = "none"
    /\ div_a = <<>> /\ div_b = <<>> /\ div_out = <<>> /\ div_pc = "off"

divVars == <<div_a, div_b, div_out, div_pc>>

inputVars == <<args, cost_csv, rev_csv>>

-----------------------------------------------------------------------------
(* main(), statement by statement *)

LoadCsv ==
    /\ pc = "load"
    /\ cost' = ReadCostCsv(cost_csv)
    /\ rev' = ReadRevCsv(rev_csv)
    /\ pc' = "cast"
    /\ UNCHANGED <<inputVars, cost_daily, rev_daily, report, h, out_file, writes, error, divVars>>

NumericCast ==
    /\ pc = "cast"
    /\ cost' = CastColumn(CastColumn(cost, "clicks"), "cost")
    /\ rev' = CastColumn(rev, "revenue")
    /\ pc' = "parse_cost"
    /\ UNCHANGED <<inputVars, cost_daily, rev_daily, report, h, out_file, writes, error, divVars>>

\* The exception of a column's outcome, "none" when no row raised.
Raised(o) ==
    IF \E i \in DOMAIN o : o[i].err # "none"
    THEN o[CHOOSE i \in DOMAIN o : o[i].err # "none"].err
    ELSE "none"

ParseCost ==
    /\ pc = "parse_cost"
    /\ \E o \in ColumnOutcomes(cost) :
          IF Raised(o) # "none"
          THEN /\ error' = Raised(o)
               /\ pc' = "failed"
               /\ UNCHANGED cost
          ELSE /\ cost' = WithUtc(cost, o)
               /\ pc' = "parse_rev"
               /\ UNCHANGED error
    /\ UNCHANGED <<inputVars, rev, cost_daily, rev_daily, report, h, out_file, writes, divVars>>

ParseRev ==
    /\ pc = "parse_rev"
    /\ \E o \in ColumnOutcomes(rev) :
          IF Raised(o) # "none"
          THEN /\ error' = Raised(o)
               /\ pc' = "failed"
               /\ UNCHANGED rev
          ELSE /\ rev' = WithUtc(rev, o)
               /\ pc' = "filter"
               /\ UNCHANGED error
    /\ UNCHANGED <<inputVars, cost, cost_daily, rev_daily, report, h, out_file, writes, divVars>>

FilterDates ==
    /\ pc = "filter"
    /\ LET d_from == FloorDay(ParseDateArg(args.date_from))
           d_to   == FloorDay(ParseDateArg(args.date_to))
       IN  /\ cost' = FilterByDate(cost, d_from, d_to)
           /\ rev' = FilterByDate(rev, d_from, d_to)
    /\ pc' = "daily"
    /\ UNCHANGED <<inputVars, cost_daily, rev_daily, report, h, out_file, writes, error, divVars>>

AggregateDaily ==
    /\ pc = "daily"
    /\ cost_daily' = CostDaily(cost)
    /\ rev_daily' = RevDaily(rev)
    /\ pc' = "join"
    /\ UNCHANGED <<inputVars, cost, rev, report, h, out_file, writes, error, divVars>>

OuterJoin ==
    /\ pc = "join"
    /\ report' = FillReport(MergeOuter(cost_daily, rev_daily))
    /\ pc' = "calc"
    /\ UNCHANGED <<inputVars, cost, rev, cost_daily, rev_daily, h, out_file, writes, error, divVars>>

Calculations ==
    /\ pc = "calc"
    /\ report' = Calculate(report)
    /\ pc' = IF args.hourly THEN "hourly" ELSE "output"
    /\ UNCHANGED <<inputVars, cost, rev, cost_daily, rev_daily, h, out_file, writes, error, divVars>>

HourlyColumns ==
    /\ pc = "hourly"
    /\ h' = HourlyJoin(cost, rev)
    /\ report' = MergeHourly(report, h')
    /\ pc' = "output"
    /\ UNCHANGED <<inputVars, cost, rev, cost_daily, rev_daily, out_file, writes, error, divVars>>

OutputOrder ==
    /\ pc = "output"
    /\ report' = FormatReport(report, args.hourly)
    /\ pc' = "write"
    /\ UNCHANGED <<inputVars, cost, rev, cost_daily, rev_daily, h, out_file, writes, error, divVars>>

WriteCsv ==
    /\ pc = "write"
    /\ out_file' = [written |-> TRUE, rows |-> report]
    /\ writes' = writes + 1
    /\ pc' = "done"
    /\ UNCHANGED <<inputVars, cost, rev, cost_daily, rev_daily, report, h, error, divVars>>

Next ==
    \/ LoadCsv
    \/ NumericCast
    \/ ParseCost
    \/ ParseRev
    \/ FilterDates
    \/ AggregateDaily
    \/ OuterJoin
    \/ Calculations
    \/ HourlyColumns
    \/ OutputOrder
    \/ WriteCsv

Spec == Init /\ [][Next]_vars

-----------------------------------------------------------------------------
(* safe_div called on its own *)

\* The arrays safe_div is called on hold at most MaxDivLen elements.
MaxDivLen == 2

\* The elements: NaN, zero, and numbers of both signs, whole and fractional.
DivValues == {NaN, Zero, Num(1, 1), Num(-3, 1), Num(1, 2)}

InitDiv ==
    /\ pc = "off"
    /\ args = [date_from |-> Date20190101, date_to |-> Date20190101, hourly |-> FALSE]
    /\ cost_csv = <<>> /\ rev_csv = <<>>
    /\ cost = <<>> /\ rev = <<>>
    /\ cost_daily = <<>> /\ rev_daily = <<>>
    /\ report = <<>> /\ h = <<>>
    /\ out_file = NoFile /\ writes = 0
    /\ error = "none"
    /\ \E n \in 0..MaxDivLen :
          /\ div_a \in [1..n -> DivValues]
          /\ div_b \in [1..n -> DivValues]
    /\ div_out = <<>>
    /\ div_pc = "call"

CallSafeDiv ==
    /\ div_pc = "call"
    /\ div_out' = safe_div(div_a, div_b)
    /\ div_pc' = "returned"
    /\ UNCHANGED <<pc, inputVars, cost, rev, cost_daily, rev_daily, report, h,
                   out_file, writes, error, div_a, div_b>>

NextDiv == CallSafeDiv

SpecDiv == InitDiv /\ [][NextDiv]_vars

-----------------------------------------------------------------------------
(* Properties *)

\* The statements of main() after the date filter, after the calculations, and
\* after the hourly columns.
AfterFilter == {"daily", "join", "calc", "hourly", "output", "write", "done"}

AfterJoin == {"calc", "hourly", "output", "write", "done"}

AfterCalc == {"hourly", "output", "write", "done"}

HourlyDone == args.hourly /\ pc \in {"output", "write", "done"}

\* The (day, campaign) key of a row, the day as the output writes it.
RowKey(r) ==
    IF "date" \in DOMAIN r THEN <<r.date, r.campaign_id>>
    ELSE <<Strftime(r.date_utc), r.campaign_id>>

\* The keys that occur in a date-filtered feed: those of the rows that have a
\* campaign id.
InputKeys(df) ==
    {RowKey(df[i]) : i \in {j \in DOMAIN df : df[j].campaign_id # NA}}

\* The rows of a frame with key k.
RowsOfKey(df, k) ==
    SelectRows(df, [i \in DOMAIN df |-> df[i].campaign_id # NA /\ RowKey(df[i]) = k])

\* x = y / z for numbers x, y and z # 0, by cross-multiplication.
IsQuotient(x, y, z) == ~x.nan /\ x.n * z.n * y.d = y.n * z.d * x.d

\* C1: after the join, and through the hourly merges to the file written, the
\* report holds exactly one row for every (utcDay, campaignId) key of the filtered
\* cost rows or the filtered revenue rows and no other row; its row count is the
\* size of the union of the two daily aggregates' key sets.
C1_OneRowPerKey ==
    pc \in AfterJoin =>
        LET keys == InputKeys(cost) \cup InputKeys(rev)
        IN  /\ {RowKey(report[i]) : i \in DOMAIN report} = keys
            /\ Len(report) = Cardinality(keys)
            /\ Len(report) = Cardinality({DayKey(cost_daily[i]) : i \in DOMAIN cost_daily}
                                         \cup {DayKey(rev_daily[i]) : i \in DOMAIN rev_daily})
            /\ Len(report) >= Len(cost_daily)
            /\ Len(report) >= Len(rev_daily)
            /\ (pc = "done" => out_file.rows = report)

\* C1's case: an hourly run that wrote two rows, one key from each feed.
C1_Witness ==
    /\ pc = "done" /\ args.hourly
    /\ Len(out_file.rows) = 2
    /\ Len(cost_daily) = 1 /\ Len(rev_daily) = 1

\* A data_date cell of a file that is not a timestamp in the format.
BadTimestamp(text) == ~Strptime(text).ok

SomeBadTimestamp ==
    \/ \E i \in DOMAIN cost_csv : BadTimestamp(cost_csv[i].data_date)
    \/ \E i \in DOMAIN rev_csv : BadTimestamp(rev_csv[i].data_date)

\* C2: the output is written at most once, as the last step; a timestamp of either
\* feed that does not match MM/DD/YY HH:MM aborts the run with nothing written; an
\* unparsable number never aborts it.
C2_FailFast ==
    /\ writes <= 1
    /\ (out_file.written => pc = "done" /\ writes = 1)
    /\ (SomeBadTimestamp => ~out_file.written)
    /\ (error # "none" => SomeBadTimestamp)

\* The part of C2 the program keeps: one write, last, and none after an abort; an
\* abort comes from a timestamp only.
C2_WriteOnceLast ==
    /\ writes <= 1
    /\ (out_file.written => pc = "done" /\ writes = 1 /\ error = "none")
    /\ (pc = "failed" => ~out_file.written /\ error # "none" /\ SomeBadTimestamp)
    /\ (pc = "done" => out_file.written)

\* C3: safe_div never raises; element by element it gives NaN where b == 0 (a == 0
\* included), exactly a / b where b != 0 (so 0 where a == 0), and NaN where a or b
\* is NaN.
C3_SafeDiv ==
    /\ (div_pc = "call" => ENABLED CallSafeDiv)
    /\ (div_pc = "returned" =>
          /\ Len(div_out) = Len(div_a)
          /\ \A i \in DOMAIN div_a :
                LET a == div_a[i]
                    b == div_b[i]
                    r == div_out[i]
                IN  /\ (~b.nan /\ b.n = 0 => r.nan)
                    /\ (a.nan \/ b.nan => r.nan)
                    /\ (~a.nan /\ ~b.nan /\ b.n # 0 => IsQuotient(r, a, b))
                    /\ (~a.nan /\ a.n = 0 /\ ~b.nan /\ b.n # 0 => r = Zero))

\* C3's case: a call that met 0 / 0 and 0 / b with b != 0.
C3_Witness ==
    /\ div_pc = "returned"
    /\ \E i \in DOMAIN div_a : div_a[i] = Zero /\ div_b[i] = Zero /\ div_out[i].nan
    /\ \E j \in DOMAIN div_a : div_a[j] = Zero /\ div_b[j] = Num(-3, 1) /\ div_out[j] = Zero

\* C4: total_roi is the double division: undefined when total_clicks == 0 (even
\* with total_cost != 0) and when total_cost == 0, total_revenue / total_cost when
\* both are nonzero; avg_cpc = safe_div(total_cost, total_clicks); total_profit =
\* total_revenue - total_cost.
C4_Metrics ==
    pc \in AfterCalc =>
        \A i \in DOMAIN report :
            LET r  == report[i]
                rv == r.total_revenue
                c  == r.total_cost
                k  == r.total_clicks
                p  == r.total_profit
            IN  /\ ~rv.nan /\ ~c.nan /\ ~k.nan
                /\ r.total_roi = safe_div(safe_div(<<rv>>, <<k>>), safe_div(<<c>>, <<k>>))[1]
                /\ r.avg_cpc = safe_div(<<c>>, <<k>>)[1]
                /\ (k.n = 0 => r.total_roi.nan /\ r.avg_cpc.nan)
                /\ (c.n = 0 => r.total_roi.nan)
                /\ (k.n # 0 /\ c.n # 0 => IsQuotient(r.total_roi, rv, c))
                /\ (k.n # 0 => IsQuotient(r.avg_cpc, c, k))
                /\ ~p.nan
                /\ p.n * rv.d * c.d = (rv.n * c.d - c.n * rv.d) * p.d

\* C4's case: a written row with no clicks but a cost and a revenue, whose ROI is
\* undefined although revenue / cost is defined.
C4_Witness ==
    /\ pc = "done"
    /\ \E i \in DOMAIN report :
          /\ report[i].total_clicks = Zero
          /\ report[i].total_cost.n # 0
          /\ report[i].total_revenue.n # 0
          /\ report[i].total_roi.nan

\* The end-to-end example's files and command line.
ExampleInput ==
    /\ cost_csv = <<[campaign_id |-> Txt1("A"), campaign_name |-> <<"A", "d", "s">>,
                     clicks |-> <<"1", "0">>, cost |-> <<"5", ".", "0">>,
                     data_date |-> Ts1231At1900]>>
    /\ rev_csv = <<[campaign_id |-> Txt1("A"), revenue |-> <<"2", "0", ".", "0">>,
                    data_date |-> Ts1231At1900]>>
    /\ args.date_from = Date20190101
    /\ args.date_to = Date20190101

\* The example's one output row, with the given ROI.
ExampleOutput(roi) ==
    /\ out_file.written
    /\ Len(out_file.rows) = 1
    /\ LET r == out_file.rows[1]
       IN  /\ r.date = <<"2", "0", "1", "9", "/", "0", "1", "/", "0", "1">>
           /\ r.campaign_id = Txt1("A")
           /\ r.campaign_name = <<"A", "d", "s">>
           /\ r.total_revenue = Num(20, 1)
           /\ r.total_cost = Num(5, 1)
           /\ r.total_profit = Num(15, 1)
           /\ r.total_clicks = Num(10, 1)
           /\ r.total_roi = roi
           /\ r.avg_cpc = Num(1, 2)

\* C5 as stated: the example's output row has totalRoi = 1.0.
C5_ExampleAsStated == (ExampleInput /\ pc = "done") => ExampleOutput(Num(1, 1))

\* C5 amended: the example's output is the one row stated, with totalRoi = 4.0.
C5_Example == (ExampleInput /\ pc = "done") => ExampleOutput(Num(4, 1))

\* C5's case: the example has run to its end.
C5_Witness == ExampleInput /\ pc = "done" /\ out_file.written

\* C6: a key of the filtered revenue feed that is not in the filtered cost feed
\* has totalCost = 0, totalClicks = 0, campaignName = "", totalRevenue = the summed
\* revenue, and avgCpc and totalRoi undefined.
C6_RevenueOnly ==
    pc \in AfterCalc =>
        \A i \in DOMAIN report :
            LET r == report[i]
            IN  RowKey(r) \notin InputKeys(cost) =>
                    /\ RowKey(r) \in InputKeys(rev)
                    /\ r.total_cost = Zero
                    /\ r.total_clicks = Zero
                    /\ r.campaign_name = <<>>
                    /\ r.total_revenue = FSum(Column(RowsOfKey(rev, RowKey(r)), "revenue"))
                    /\ r.avg_cpc.nan
                    /\ r.total_roi.nan

\* C6's case: a written row of a key the cost feed does not have, with revenue.
C6_Witness ==
    /\ pc = "done"
    /\ \E i \in DOMAIN out_file.rows :
          /\ RowKey(out_file.rows[i]) \notin InputKeys(cost)
          /\ out_file.rows[i].total_revenue.n # 0

\* The UTC day of each timestamp of the feeds, as a date argument.
UtcDateOf(text) ==
    IF text = Ts1231At1859 THEN Date20181231 ELSE Date20190101

HasUtcDate(text) == text \in {Ts1231At1859, Ts1231At1900, Ts1231At2000}

\* ISO dates compare as their texts do.
DateLeq(d1, d2) == d1 = d2 \/ StrLess(d1, d2)

\* from <= utcDay <= to of a row of a file.
WithinBounds(row) ==
    /\ HasUtcDate(row.data_date)
    /\ DateLeq(args.date_from, UtcDateOf(row.data_date))
    /\ DateLeq(UtcDateOf(row.data_date), args.date_to)

\* The rows of a file within the bounds.
RowsWithinBounds(file) == SelectRows(file, [i \in DOMAIN file |-> WithinBounds(file[i])])

\* The rows of a frame or file, as (data_date, campaign_id).
Cells(df) == [i \in DOMAIN df |-> <<df[i].data_date, ReadCell(df[i].campaign_id)>>]

\* C7: the filter keeps exactly the rows with from <= utcDay <= to, utcDay being
\* the day of the converted instant, bounds included; with from > to the filtered
\* feeds and the report are empty and the run completes without error: every
\* statement up to the last can run, and the last writes the empty table.
C7_RangeFilter ==
    pc \in AfterFilter =>
        /\ Cells(cost) = Cells(RowsWithinBounds(cost_csv))
        /\ Cells(rev) = Cells(RowsWithinBounds(rev_csv))
        /\ error = "none"
        /\ (StrLess(args.date_to, args.date_from) =>
              /\ cost = <<>> /\ rev = <<>> /\ report = <<>>
              /\ (pc # "done" => ENABLED Next)
              /\ (pc = "done" => out_file = [written |-> TRUE, rows |-> <<>>]))

\* C7's case: from = to, a row on that UTC day (its local date is the day before)
\* kept and a row of the day before dropped.
C7_Witness ==
    /\ pc = "done"
    /\ args.date_from = Date20190101 /\ args.date_to = Date20190101
    /\ \E i \in DOMAIN cost_csv : cost_csv[i].data_date = Ts1231At1859
    /\ \E i \in DOMAIN cost : cost[i].data_date = Ts1231At1900
    /\ Len(cost) = 1

\* The hour buckets of h of the key of report row r.
HoursOfRow(r) == SelectRows(h, [j \in DOMAIN h |-> RowKey(h[j]) = RowKey(r)])

\* C8: in hourly mode, the hourly costs of a report key sum to the row's totalCost
\* and its hourly revenues to the row's totalRevenue.
C8_HourlyConsistent ==
    HourlyDone =>
        \A i \in DOMAIN report :
            /\ FSum(Column(HoursOfRow(report[i]), "cost")) = report[i].total_cost
            /\ FSum(Column(HoursOfRow(report[i]), "revenue")) = report[i].total_revenue

\* C8's case: a written row whose key has two hours with a cost.
C8_Witness ==
    /\ pc = "done" /\ args.hourly
    /\ \E i \in DOMAIN report :
          /\ Len(HoursOfRow(report[i])) = 2
          /\ \A j \in 1..2 : HoursOfRow(report[i])[j].cost.n # 0

\* C9: in hourly mode positiveProfitHours is the number of hour buckets of the
\* zero-filled hourly join of the key with revenue - cost > 0, an integer, 0 when
\* there is none.
C9_PositiveProfitHours ==
    HourlyDone =>
        /\ \A j \in DOMAIN h : ~h[j].revenue.nan /\ ~h[j].cost.nan
        /\ \A i \in DOMAIN report :
              LET hrs == HoursOfRow(report[i])
              IN  /\ report[i].positive_profit_hours \in Nat
                  /\ report[i].positive_profit_hours =
                        Cardinality({j \in DOMAIN hrs :
                            hrs[j].revenue.n * hrs[j].cost.d > hrs[j].cost.n * hrs[j].revenue.d})

\* C9's case: a written row with a profitable hour and an hour of exactly zero
\* profit.
C9_Witness ==
    /\ pc = "done" /\ args.hourly
    /\ \E i \in DOMAIN report :
          /\ report[i].positive_profit_hours = 1
          /\ \E j \in DOMAIN HoursOfRow(report[i]) :
                HoursOfRow(report[i])[j].profit = Zero

\* C10: in hourly mode hourlyAvgRevenue is the summed hourly revenue of the key
\* over the number of its hour buckets, the hours with a cost and no revenue
\* counted; every report key has at least one bucket.
C10_HourlyAvgRevenue ==
    HourlyDone =>
        \A i \in DOMAIN report :
            LET hrs == HoursOfRow(report[i])
            IN  /\ Len(hrs) >= 1
                /\ IsQuotient(report[i].hourly_avg_revenue,
                              FSum(Column(hrs, "revenue")), Num(Len(hrs), 1))

\* C10's case: a written row with revenue whose key has an hour with a cost and no
\* revenue row.
C10_Witness ==
    /\ pc = "done" /\ args.hourly
    /\ \E i \in DOMAIN report :
          /\ report[i].total_revenue.n # 0
          /\ \E j \in DOMAIN HoursOfRow(report[i]) :
                /\ HoursOfRow(report[i])[j].cost.n # 0
                /\ HourKey(HoursOfRow(report[i])[j]) \notin HourKeys(rev)

=============================================================================
